---- MODULE Spec2Model ----
(***************************************************************************)
(* A model of julia/printers.py: the gdb pretty-printer for Julia runtime  *)
(* objects.  Two parts of the program are modelled:                        *)
(*   - the registry and dispatch (Printer.add, Printer.__deferred__init__, *)
(*     Printer.resolve_julia_typename, Printer.__call__, Decorator.invoke, *)
(*     CastingPrinter.__init__), exercised by the specification Spec and,  *)
(*     with the registrations made one by one in any order, by SpecOrder;  *)
(*   - the field walk (CastingPrinter.children, a Python generator driven  *)
(*     by the host debugger) over a heap of runtime objects, exercised by  *)
(*     the specification SpecWalk (nested walks of one render) and by      *)
(*     SpecHost (generators the host holds at once and interleaves).       *)
(* gdb itself (symbol, type and memory access) is the environment: which   *)
(* symbols, types and layouts it knows is chosen in Init and then fixed.   *)
(***************************************************************************)
EXTENDS Integers, Sequences, FiniteSets, TLC

VARIABLES
    \* --- the debugged image, as gdb answers about it (fixed after Init)
    anchor,        \* TRUE iff gdb.lookup_type('jl_value_t') succeeds
    symbols,       \* the names gdb.lookup_symbol resolves as type variables
    layouts,       \* the names gdb.lookup_symbol resolves as cast layouts
    heap,          \* object address -> [tag, a, b, len]: the runtime objects
    \* --- module globals
    visited,       \* printers.py:16
    void_ptr,      \* printers.py:17
    \* --- the Printer instance julia_printer
    subprinters,   \* Printer.subprinters
    printers,      \* Printer.printers : display name -> Decorator
    typevars,      \* Printer.typevars : symbol name -> display name
    types,         \* Printer.types    : tag address -> display name
    enabled,       \* Printer.enabled
    initialized,   \* Printer.initialized
    \* --- the host debugger's live children() generators, innermost last
    stack,
    \* --- observations of the run (history, not program state)
    last,          \* the last Printer.__call__: its value, pre-state, outcome
    emitted,       \* the last (name, value) pair a children() generator yielded
    regLog,        \* every Printer.add so far, with whether it came before init
    firstRes,      \* tag address -> the first printer it resolved to
    calls,         \* number of render calls made by the action Call
    populations,   \* number of times the loop of __deferred__init__ was entered
    anchorLookups, \* number of gdb.lookup_type('jl_value_t') calls
    render         \* the current top-level render: root, how it began, tokens

regvars  == <<subprinters, printers, typevars, types, enabled, initialized, void_ptr>>
envvars  == <<anchor, symbols, layouts, heap>>
walkvars == <<visited, stack, emitted, render>>
obsvars  == <<last, regLog, firstRes, calls, populations, anchorLookups>>
vars     == <<envvars, regvars, walkvars, obsvars>>

----------------------------------------------------------------------------
(* Bounds of the model *)

MaxAdds == 2
MaxCalls == 2
MaxObjects == 3
\* the generators a host holds at once where it interleaves them
MaxLive == 2

----------------------------------------------------------------------------
(* The universe of names and addresses *)

NoneName == "None"

\* Global symbols holding type-descriptor addresses.
Symbols == {"jl_expr_type", "jl_datatype_type"}

\* Structural layouts a value can be cast to.
Layouts == {"jl_expr_t", "jl_datatype_t"}

\* The print_type_name argument of Printer.add ("" is its default).
PrintNames == {"", "Expr"}

\* jl_typevar.value(): the address a type variable holds (gdb's answer).
SymAddr(s) == IF s = "jl_expr_type" THEN 101 ELSE 102

\* Tag addresses found in values: the two above and one of no registered type.
TagAddrs == {101, 102, 103}

\* r_jl_type = re.compile("^_?jl_\w+_t$"), on the type names of this model.
r_jl_type(name) == name \in {"jl_value_t", "_jl_value_t", "jl_fptr_t", "jl_options_t",
                             "jl_expr_t", "jl_datatype_t"}

----------------------------------------------------------------------------
(* gdb values and types, as far as the program inspects them               *)
(*   type : [code, name, target]  (target: the name of the type pointed or *)
(*          referred to, "" otherwise)                                     *)
(*   value: [type, hasType, typeIsPtr, tag, address]                       *)
(*          hasType   : val["type"] succeeds                               *)
(*          typeIsPtr : that field is of pointer type                      *)
(*          tag       : the address that field points to                   *)
(*          address   : the address of the (pointed-to) object             *)

StructType(n) == [code |-> "STRUCT", name |-> n, target |-> ""]
PtrType(n) == [code |-> "PTR", name |-> "ptr", target |-> n]
RefType(n) == [code |-> "REF", name |-> "ref", target |-> n]
IntType == [code |-> "INT", name |-> "int", target |-> ""]

\* A tagged runtime object at address a, seen through a static type t.
Tagged(t, tg, a) ==
    [type |-> t, hasType |-> TRUE, typeIsPtr |-> TRUE, tag |-> tg, address |-> a]

\* The values the host hands to the printer in Spec.
Values ==
    {[type |-> IntType, hasType |-> FALSE, typeIsPtr |-> FALSE, tag |-> 0, address |-> 0],
     [type |-> StructType("jl_fptr_t"), hasType |-> FALSE, typeIsPtr |-> FALSE,
      tag |-> 0, address |-> 0],
     [type |-> StructType("jl_options_t"), hasType |-> TRUE, typeIsPtr |-> FALSE,
      tag |-> 0, address |-> 0],
     Tagged(PtrType("jl_value_t"), 101, 0),
     Tagged(RefType("jl_value_t"), 102, 0)}
    \cup {Tagged(StructType("jl_value_t"), tg, 0) : tg \in TagAddrs}

\* get_typename: a reference type is replaced by its target.
get_typename(type) == IF type.code = "REF" THEN type.target ELSE type.name

is_pointer(v) == v.type.code = "PTR"

is_julia_type(t) == r_jl_type(get_typename(t))

is_julia_pointer(v) == is_pointer(v) /\ is_julia_type(StructType(v.type.target))

\* val.dereference(): the pointed-to object under the pointer's target type.
dereference(v) == [v EXCEPT !.type = StructType(v.type.target)]

\* get_pointer_address(p): asserts p is a pointer, then long(p.cast(void_ptr)).
\* The cast raises while void_ptr is still None.
get_pointer_address(isPtr, addr, vp) ==
    IF ~isPtr THEN [err |-> "AssertionError", addr |-> 0]
    ELSE IF vp = NoneName THEN [err |-> "TypeError", addr |-> 0]
    ELSE [err |-> NoneName, addr |-> addr]

----------------------------------------------------------------------------
(* Outcomes of Printer.__call__ *)

NotHandled == [kind |-> "none", print |-> "", cast |-> "", address |-> 0, err |-> NoneName]
Raised(e) == [kind |-> "error", print |-> "", cast |-> "", address |-> 0, err |-> e]
PrinterObj(c, p, a) ==
    [kind |-> "printer", print |-> p, cast |-> c, address |-> a, err |-> NoneName]

EmptyMap == [x \in {} |-> NoneName]
Put(f, k, v) == [x \in DOMAIN f \cup {k} |-> IF x = k THEN v ELSE f[x]]

\* CastingPrinter.__init__: looks the cast layout up and casts the value.
CastingPrinter_init(cast_type_name, print_type_name, val) ==
    IF cast_type_name \notin layouts
    THEN Raised("Could not find type!")
    ELSE PrinterObj(cast_type_name, print_type_name, val.address)

\* Decorator.invoke
invoke(dec, val) ==
    IF ~dec.enabled
    THEN NotHandled
    ELSE CastingPrinter_init(dec.cast_type_name, dec.print_type_name, val)

\* Printer.resolve_julia_typename, against address map tys and void_ptr vp:
\* [err, name], name = NoneName for "unresolved".
resolve_julia_typename(val, tys, vp) ==
    IF ~is_julia_type(val.type) THEN [err |-> NoneName, name |-> NoneName]
    ELSE IF ~val.hasType THEN [err |-> NoneName, name |-> NoneName]
    ELSE LET a == get_pointer_address(val.typeIsPtr, val.tag, vp) IN
         IF a.err # NoneName THEN [err |-> a.err, name |-> NoneName]
         ELSE IF a.addr \in DOMAIN tys THEN [err |-> NoneName, name |-> tys[a.addr]]
         ELSE [err |-> NoneName, name |-> NoneName]

\* self.types after the loop of __deferred__init__ has handled the type
\* variables in done (their addresses are pairwise distinct).
Populate(tys, done) ==
    [a \in DOMAIN tys \cup {SymAddr(s) : s \in done} |->
        IF \E s \in done : SymAddr(s) = a
        THEN typevars[CHOOSE s \in done : SymAddr(s) = a]
        ELSE tys[a]]

\* __deferred__init__ with a missing type variable treated as the missing
\* anchor is (lines 143-147): the printer disables itself and raises nothing.
deferred_init_swallowing ==
    IF ~anchor \/ \E s \in DOMAIN typevars : s \notin symbols
    THEN {[enabled |-> FALSE, initialized |-> initialized, void_ptr |-> void_ptr,
           types |-> types, err |-> NoneName, populated |-> anchor]}
    ELSE {[enabled |-> enabled, initialized |-> TRUE, void_ptr |-> "void *",
           types |-> Populate(types, DOMAIN typevars), err |-> NoneName,
           populated |-> TRUE]}

\* Printer.__deferred__init__: the states it can leave the registry in.
\* The dict typevars is iterated in no specified order, so when a symbol is
\* missing any set of the resolvable ones may have been handled first.
deferred_init ==
    IF ~anchor
    THEN {[enabled |-> FALSE, initialized |-> initialized, void_ptr |-> void_ptr,
           types |-> types, err |-> NoneName, populated |-> FALSE]}
    ELSE LET missing == {s \in DOMAIN typevars : s \notin symbols} IN
         IF missing = {}
         THEN {[enabled |-> enabled, initialized |-> TRUE, void_ptr |-> "void *",
                types |-> Populate(types, DOMAIN typevars), err |-> NoneName,
                populated |-> TRUE]}
         ELSE {[enabled |-> enabled, initialized |-> initialized, void_ptr |-> "void *",
                types |-> Populate(types, done),
                err |-> "Could not find type variable!", populated |-> TRUE]
               : done \in SUBSET (DOMAIN typevars \ missing)}

\* The registry as it stands, in the shape deferred_init returns.
NoInit ==
    {[enabled |-> enabled, initialized |-> initialized, void_ptr |-> void_ptr,
      types |-> types, err |-> NoneName, populated |-> FALSE]}

\* The test of line 211 left out: initialise on every call.
NeedsInitAlways == TRUE

\* Printer.__call__ line 211: is the deferred initialisation due?
NeedsInit == ~initialized

\* Printer.__call__ lines 214-224, on the registry r left by the
\* initialisation step: dereference, resolve, expand.  The dict lookup of
\* line 224 raises KeyError for a name that is no key of self.printers.
Dispatch(val, r) ==
    LET v == IF is_julia_pointer(val) THEN dereference(val) ELSE val
        n == resolve_julia_typename(v, r.types, r.void_ptr)
    IN  IF n.err # NoneName THEN Raised(n.err)
        ELSE IF n.name = NoneName THEN NotHandled
        ELSE IF n.name \notin DOMAIN printers THEN Raised("KeyError")
        ELSE invoke(printers[n.name], v)

\* Printer.__call__: every [registry after, outcome] a call on val can have.
Printer_call(val) ==
    IF ~enabled
    THEN {[reg |-> r, anchorLookup |-> FALSE, outcome |-> NotHandled] : r \in NoInit}
    ELSE IF NeedsInit
    THEN {[reg |-> r, anchorLookup |-> TRUE,
           outcome |-> IF r.err # NoneName THEN Raised(r.err) ELSE Dispatch(val, r)]
          : r \in deferred_init}
    ELSE {[reg |-> r, anchorLookup |-> FALSE, outcome |-> Dispatch(val, r)]
          : r \in NoInit}

----------------------------------------------------------------------------
(* The registry: Printer.add and a render call of the host *)

NoCall ==
    [val |-> CHOOSE v \in Values : v.type = IntType,
     pre |-> [enabled |-> TRUE, initialized |-> FALSE],
     anchorLookup |-> FALSE, populated |-> FALSE,
     outcome |-> [kind |-> "nocall", print |-> "", cast |-> "", address |-> 0,
                  err |-> NoneName]]

NoEmission == [owner |-> 0, name |-> "", kind |-> "", token |-> "", pointee |-> 0]

NoRender == [root |-> 0, cleanStart |-> TRUE, clean |-> TRUE, nself |-> 0, nelided |-> 0]

\* The record of one call, as the observations keep it.
CallRecord(val, c) ==
    [val |-> val, pre |-> [enabled |-> enabled, initialized |-> initialized],
     anchorLookup |-> c.anchorLookup, populated |-> c.reg.populated,
     outcome |-> c.outcome]

\* What a call c on val leaves in the registry and in the observations.
CallEffect(val, c) ==
    /\ enabled' = c.reg.enabled
    /\ initialized' = c.reg.initialized
    /\ void_ptr' = c.reg.void_ptr
    /\ types' = c.reg.types
    /\ UNCHANGED <<subprinters, printers, typevars>>
    /\ last' = CallRecord(val, c)
    /\ populations' = populations + (IF c.reg.populated THEN 1 ELSE 0)
    /\ anchorLookups' = anchorLookups + (IF c.anchorLookup THEN 1 ELSE 0)
    /\ firstRes' = IF c.outcome.kind = "printer" /\ val.tag \notin DOMAIN firstRes
                   THEN Put(firstRes, val.tag,
                            [print |-> c.outcome.print, cast |-> c.outcome.cast])
                   ELSE firstRes
    /\ UNCHANGED regLog

\* Printer.add with line 183 storing the Decorator under the layout name
\* instead of the display name.
add_keyed_by_layout(r, typevar_name, cast_type_name, print_type_name) ==
    LET pn == IF print_type_name = "" THEN cast_type_name ELSE print_type_name
        printer == [cast_type_name |-> cast_type_name, print_type_name |-> pn,
                    enabled |-> TRUE]
    IN  [typevars |-> Put(r.typevars, typevar_name, pn),
         subprinters |-> Append(r.subprinters, printer),
         printers |-> Put(r.printers, cast_type_name, printer)]

\* Printer.add(typevar_name, cast_type_name, print_type_name) on the registry
\* r = [typevars, subprinters, printers]: the registry it leaves.
add(r, typevar_name, cast_type_name, print_type_name) ==
    LET pn == IF print_type_name = "" THEN cast_type_name ELSE print_type_name
        printer == [cast_type_name |-> cast_type_name, print_type_name |-> pn,
                    enabled |-> TRUE]
    IN  [typevars |-> Put(r.typevars, typevar_name, pn),
         subprinters |-> Append(r.subprinters, printer),
         printers |-> Put(r.printers, pn, printer)]

\* The entry the observations keep of one Printer.add.
LogEntry(typevar_name, cast_type_name, print_type_name, early) ==
    [typevar |-> typevar_name, cast |-> cast_type_name,
     print |-> IF print_type_name = "" THEN cast_type_name ELSE print_type_name,
     early |-> early]

\* Printer("julia"), lines 130-139.
NewPrinter == [typevars |-> EmptyMap, subprinters |-> <<>>, printers |-> EmptyMap]

\* build_julia_typemap(), run when the module is loaded: the registrations of
\* the type variables of this model.
build_julia_typemap ==
    add(add(NewPrinter, "jl_expr_type", "jl_expr_t", ""),
        "jl_datatype_type", "jl_datatype_t", "")

BuiltinLog ==
    <<LogEntry("jl_expr_type", "jl_expr_t", "", TRUE),
      LogEntry("jl_datatype_type", "jl_datatype_t", "", TRUE)>>

\* A further julia_printer.add(...) made by the user's gdb script.
Add ==
    /\ Len(regLog) < Len(BuiltinLog) + MaxAdds
    /\ \E tv \in Symbols, c \in Layouts, p \in PrintNames :
         LET r == add([typevars |-> typevars, subprinters |-> subprinters,
                       printers |-> printers], tv, c, p)
         IN  /\ typevars' = r.typevars
             /\ subprinters' = r.subprinters
             /\ printers' = r.printers
             /\ regLog' = Append(regLog, LogEntry(tv, c, p, ~initialized))
    /\ UNCHANGED <<types, enabled, initialized, void_ptr>>
    /\ UNCHANGED <<envvars, walkvars, last, firstRes, calls, populations,
                   anchorLookups>>

\* The host asks the printer about one value (Printer.__call__) and does not
\* go on to walk the fields.
Call ==
    /\ calls < MaxCalls
    /\ \E val \in Values : \E c \in Printer_call(val) : CallEffect(val, c)
    /\ calls' = calls + 1
    /\ UNCHANGED <<envvars, walkvars>>

\* The images gdb may be looking at: with or without the anchor type, with
\* or without the symbol and the layout of one registered type.
Images ==
    [anchor : BOOLEAN,
     symbols : {Symbols, Symbols \ {"jl_datatype_type"}},
     layouts : {Layouts, Layouts \ {"jl_datatype_t"}}]

\* The registry once the module is loaded: build_julia_typemap() has run,
\* nothing has been looked up.
RegistryInit ==
    /\ void_ptr = NoneName
    /\ subprinters = build_julia_typemap.subprinters
    /\ printers = build_julia_typemap.printers
    /\ typevars = build_julia_typemap.typevars
    /\ types = EmptyMap
    /\ enabled = TRUE
    /\ initialized = FALSE
    /\ regLog = BuiltinLog
    /\ last = NoCall
    /\ firstRes = EmptyMap
    /\ calls = 0
    /\ populations = 0
    /\ anchorLookups = 0

Init ==
    /\ \E im \in Images :
         /\ anchor = im.anchor
         /\ symbols = im.symbols
         /\ layouts = im.layouts
    /\ RegistryInit
    /\ heap = EmptyMap
    /\ visited = {}
    /\ stack = <<>>
    /\ emitted = NoEmission
    /\ render = NoRender

Next == Add \/ Call

Spec == Init /\ [][Next]_vars

----------------------------------------------------------------------------
(* The registrations made one by one, in any order *)

\* julia_printer.add(...) for a type variable not yet registered: one of the
\* calls of build_julia_typemap (lines 260-264), or of the user's script,
\* with the calls taken in any order.
AddNew ==
    /\ \E tv \in Symbols \ DOMAIN typevars, c \in Layouts, p \in PrintNames :
         LET r == add([typevars |-> typevars, subprinters |-> subprinters,
                       printers |-> printers], tv, c, p)
         IN  /\ typevars' = r.typevars
             /\ subprinters' = r.subprinters
             /\ printers' = r.printers
             /\ regLog' = Append(regLog, LogEntry(tv, c, p, ~initialized))
    /\ UNCHANGED <<types, enabled, initialized, void_ptr>>
    /\ UNCHANGED <<envvars, walkvars, last, firstRes, calls, populations,
                   anchorLookups>>

\* The registry right after Printer("julia") (line 259), nothing registered
\* yet, in a session on a Julia image.
InitOrder ==
    /\ anchor = TRUE
    /\ symbols = Symbols
    /\ layouts = Layouts
    /\ void_ptr = NoneName
    /\ subprinters = NewPrinter.subprinters
    /\ printers = NewPrinter.printers
    /\ typevars = NewPrinter.typevars
    /\ types = EmptyMap
    /\ enabled = TRUE
    /\ initialized = FALSE
    /\ regLog = <<>>
    /\ last = NoCall
    /\ firstRes = EmptyMap
    /\ calls = 0
    /\ populations = 0
    /\ anchorLookups = 0
    /\ heap = EmptyMap
    /\ visited = {}
    /\ stack = <<>>
    /\ emitted = NoEmission
    /\ render = NoRender

NextOrder == AddNew \/ Call

SpecOrder == InitOrder /\ [][NextOrder]_vars

----------------------------------------------------------------------------
(* The heap of runtime objects and the layouts gdb casts them to *)

\* cast_type.fields() of each layout, in declaration order.  kind is what
\* is_pointer(val) and val.type != void_ptr see; slot is where the field's
\* value lives in an object of the heap.
Fields(cast_type_name) ==
    IF cast_type_name = "jl_expr_t"
    THEN <<[name |-> "type", kind |-> "ptr", slot |-> "tag"],
           [name |-> "head", kind |-> "ptr", slot |-> "a"],
           [name |-> "args", kind |-> "ptr", slot |-> "b"]>>
    ELSE <<[name |-> "type", kind |-> "ptr", slot |-> "tag"],
           [name |-> "name", kind |-> "ptr", slot |-> "a"],
           [name |-> "super", kind |-> "ptr", slot |-> "b"],
           [name |-> "size", kind |-> "plain", slot |-> "len"],
           [name |-> "env", kind |-> "ptr", slot |-> "a"],
           [name |-> "fptr", kind |-> "void", slot |-> "a"],
           [name |-> "types", kind |-> "ptr", slot |-> "b"]>>

\* self.casted_val[key.name]: the address a pointer field holds (for a plain
\* field, its content).
FieldValue(obj, field) ==
    IF field.slot = "tag" THEN obj.tag
    ELSE IF field.slot = "a" THEN obj.a
    ELSE IF field.slot = "b" THEN obj.b
    ELSE obj.len

\* The heaps of the model: n objects at addresses 1..n, linked into a ring
\* through slot a, the ring optionally cut at one object (a null pointer),
\* optionally one more edge through slot b, all tagged jl_expr_type but the
\* last, which has any tag.
Heaps ==
    UNION {
        {[o \in 1..n |->
            [tag |-> IF o = n THEN t ELSE SymAddr("jl_expr_type"),
             a |-> IF o = cut THEN 0 ELSE (o % n) + 1,
             b |-> IF o = e[1] THEN e[2] ELSE 0,
             len |-> n]]
         : cut \in 0..n, e \in {<<0, 0>>} \cup ((1..n) \X (1..n)), t \in TagAddrs}
        : n \in 1..MaxObjects}

\* The gdb.Value the host holds for a field or a variable that points to the
\* object at address p; where no object is at p (the null pointer), no type
\* field can be read through it (the try of lines 191-195 fails).
PointerTo(p) ==
    IF p \in DOMAIN heap
    THEN Tagged(PtrType("jl_value_t"), heap[p].tag, p)
    ELSE [type |-> PtrType("jl_value_t"), hasType |-> FALSE, typeIsPtr |-> FALSE,
          tag |-> 0, address |-> p]

\* The gdb.Value of a field that is no pointer to a runtime object.
OtherValue(kind) ==
    [type |-> IF kind = "void" THEN PtrType("void") ELSE IntType,
     hasType |-> FALSE, typeIsPtr |-> FALSE, tag |-> 0, address |-> 0]

----------------------------------------------------------------------------
(* CastingPrinter.children *)

\* blacklist, lines 51-54
blacklist ==
    [k \in {"*", "jl_datatype_t"} |->
        IF k = "*" THEN {"type", "env"} ELSE {"instance", "parameters", "super"}]

\* The skip of lines 83-84 alone, without the type-specific list of lines 85-86.
BlacklistedGlobalOnly(print_type_name, name) ==
    name \in blacklist["*"]

\* lines 83-86: the field is skipped.
Blacklisted(print_type_name, name) ==
    \/ name \in blacklist["*"]
    \/ print_type_name \in DOMAIN blacklist /\ name \in blacklist[print_type_name]

\* The loop of line 81 with the two "continue" of lines 84 and 86 replaced by
\* "break": the walk ends at the first blacklisted field.
NextFieldBreaking(frame) ==
    LET fs == Fields(frame.cast)
        i == frame.pc + 1
    IN  IF i > Len(fs) \/ Blacklisted(frame.print, fs[i].name) THEN 0 ELSE i

\* The index of the first field after index pc that is not skipped, 0 when
\* the loop of line 81 is exhausted.
NextField(frame) ==
    LET fs == Fields(frame.cast)
        S == {i \in (frame.pc + 1)..Len(fs) : ~Blacklisted(frame.print, fs[i].name)}
    IN  IF S = {} THEN 0 ELSE CHOOSE i \in S : \A j \in S : i <= j

\* Emit without the test of line 97: every non-null pointer is yielded as it is.
EmitUnguarded(kind, pointer, vis, selfptr) ==
    IF kind = "ptr" /\ pointer = 0 THEN "0x0" ELSE "val"

\* Emit without the test of line 95: a null pointer is treated as any other.
EmitNullUntested(kind, pointer, vis, selfptr) ==
    IF kind = "ptr"
    THEN IF pointer \notin vis THEN "val"
         ELSE IF pointer = selfptr THEN "<self>"
         ELSE "<...>"
    ELSE "val"

\* lines 88-105: what is yielded for a field of the given kind holding
\* pointer, while vis is the visited set and selfptr is self.pointer.
\* "val" stands for the gdb.Value itself.
Emit(kind, pointer, vis, selfptr) ==
    IF kind = "ptr"
    THEN IF pointer = 0 THEN "0x0"
         ELSE IF pointer \notin vis THEN "val"
         ELSE IF pointer = selfptr THEN "<self>"
         ELSE "<...>"
    ELSE "val"

\* A live generator: the object it walks, its layout and display name, the
\* field it is suspended at (0: created, body not yet entered) and, as an
\* observation, the names of the fields it has yielded so far.
Frame(pr) ==
    [ptr |-> pr.address, cast |-> pr.cast, print |-> pr.print, pc |-> 0, out |-> <<>>]

Top == stack[Len(stack)]
Pop == SubSeq(stack, 1, Len(stack) - 1)

\* The visited set once the generator on top has run lines 78-79.
Entered == IF Top.pc = 0 THEN visited \cup {Top.ptr} ELSE visited

\* The walks in progress: generators that have entered and not yet left.
InProgress == {stack[i].ptr : i \in {j \in 1..Len(stack) : stack[j].pc > 0}}

\* Guard of the model only: the depth the host may reach.  No walk of the
\* program reaches it (see C2).
MaxDepth == MaxObjects + 2

\* The host starts a top-level render of the object at address o: it asks
\* the printer (Printer.__call__) and, given a printer object, calls
\* children() on it.
Render(o) ==
    /\ stack = <<>>
    /\ LET val == PointerTo(o) IN
       \E c \in Printer_call(val) :
         /\ CallEffect(val, c)
         /\ stack' = IF c.outcome.kind = "printer" THEN <<Frame(c.outcome)>> ELSE <<>>
    /\ render' = [root |-> o, cleanStart |-> visited = {}, clean |-> TRUE,
                  nself |-> 0, nelided |-> 0]
    /\ emitted' = NoEmission
    /\ UNCHANGED <<envvars, visited, calls>>

\* The host calls next() on the innermost generator, which runs to its next
\* yield or to its end; the host then renders what was yielded, asking the
\* printer about a yielded gdb.Value.
Resume ==
    /\ stack # <<>>
    /\ LET i == NextField(Top) IN
       \/ /\ i = 0
          /\ visited' = Entered \ {Top.ptr}
          /\ stack' = Pop
          /\ emitted' = [NoEmission EXCEPT !.owner = Top.ptr, !.kind = "end"]
          /\ UNCHANGED <<render, regvars, obsvars>>
       \/ /\ i # 0
          /\ LET f == Fields(Top.cast)[i]
                 p == FieldValue(heap[Top.ptr], f)
                 tok == Emit(f.kind, p, Entered, Top.ptr)
                 suspended ==
                     [stack EXCEPT ![Len(stack)] =
                          [Top EXCEPT !.pc = i, !.out = Append(@, f.name)]]
             IN  /\ visited' = Entered
                 /\ emitted' = [owner |-> Top.ptr, name |-> f.name, kind |-> f.kind,
                                token |-> tok, pointee |-> p]
                 /\ render' = [render EXCEPT
                                 !.nself = @ + (IF tok = "<self>" THEN 1 ELSE 0),
                                 !.nelided = @ + (IF tok = "<...>" THEN 1 ELSE 0)]
                 /\ \/ /\ tok # "val"
                       /\ stack' = suspended
                       /\ UNCHANGED <<regvars, obsvars>>
                    \/ /\ tok = "val"
                       /\ LET val == IF f.kind = "ptr" THEN PointerTo(p)
                                     ELSE OtherValue(f.kind) IN
                          \E c \in Printer_call(val) :
                            /\ CallEffect(val, c)
                            /\ c.outcome.kind = "printer" => Len(stack) < MaxDepth
                            /\ stack' = IF c.outcome.kind = "printer"
                                        THEN Append(suspended, Frame(c.outcome))
                                        ELSE suspended
                       /\ UNCHANGED calls
    /\ UNCHANGED envvars

\* A step of the innermost generator raises (a field of the object cannot be
\* read, lines 88 and 92): the generator is finished by the exception, past
\* line 79 and short of line 107, and the host goes on with the enclosing one.
FailStep ==
    /\ stack # <<>>
    /\ NextField(Top) # 0
    /\ visited' = Entered
    /\ stack' = Pop
    /\ emitted' = NoEmission
    /\ render' = [render EXCEPT !.clean = FALSE]
    /\ UNCHANGED <<envvars, regvars, obsvars>>

\* The host stops pulling from the innermost generator and drops it: the
\* generator is closed where it is suspended and line 107 is never run.
Abandon ==
    /\ stack # <<>>
    /\ stack' = Pop
    /\ emitted' = NoEmission
    /\ render' = [render EXCEPT !.clean = FALSE]
    /\ UNCHANGED <<envvars, regvars, obsvars, visited>>

\* A session on a Julia image: the anchor, every symbol and every layout are
\* there; the heap is any heap of the model.
InitWalk ==
    /\ anchor = TRUE
    /\ symbols = Symbols
    /\ layouts = Layouts
    /\ RegistryInit
    /\ heap \in Heaps
    /\ visited = {}
    /\ stack = <<>>
    /\ emitted = NoEmission
    /\ render = NoRender

NextWalk ==
    \/ \E o \in DOMAIN heap : Render(o)
    \/ Resume
    \/ FailStep
    \/ Abandon

SpecWalk == InitWalk /\ [][NextWalk]_vars

----------------------------------------------------------------------------
(* A host that holds several generators at once and resumes them in any    *)
(* order (gdb/MI keeps the children() iterator of each variable object     *)
(* between commands).  stack is here the list of the live generators.      *)

\* The host asks the printer about the object at address o and, given a
\* printer object, calls children() on it and keeps the generator.
Open(o) ==
    /\ Len(stack) < MaxLive
    /\ LET val == PointerTo(o) IN
       \E c \in Printer_call(val) :
         /\ CallEffect(val, c)
         /\ stack' = IF c.outcome.kind = "printer"
                     THEN Append(stack, Frame(c.outcome)) ELSE stack
    /\ emitted' = NoEmission
    /\ UNCHANGED <<envvars, visited, calls, render>>

\* The list of generators without the g-th.
Closed(g) == SubSeq(stack, 1, g - 1) \o SubSeq(stack, g + 1, Len(stack))

\* The host calls next() on its g-th generator, which runs to its next yield
\* or to its end (lines 78-107).  visited.remove (line 107) raises KeyError
\* when the address is not in the set.
ResumeAt(g) ==
    /\ LET fr == stack[g]
           entered == IF fr.pc = 0 THEN visited \cup {fr.ptr} ELSE visited
           i == NextField(fr)
       IN  \/ /\ i = 0
              /\ visited' = entered \ {fr.ptr}
              /\ stack' = Closed(g)
              /\ emitted' = [NoEmission EXCEPT
                               !.owner = fr.ptr,
                               !.kind = IF fr.ptr \in entered THEN "end" ELSE "KeyError"]
           \/ /\ i # 0
              /\ LET f == Fields(fr.cast)[i]
                     p == FieldValue(heap[fr.ptr], f)
                 IN  /\ visited' = entered
                     /\ emitted' = [owner |-> fr.ptr, name |-> f.name, kind |-> f.kind,
                                    token |-> Emit(f.kind, p, entered, fr.ptr),
                                    pointee |-> p]
                     /\ stack' = [stack EXCEPT ![g] =
                                     [fr EXCEPT !.pc = i, !.out = Append(@, f.name)]]
    /\ UNCHANGED <<envvars, regvars, obsvars, render>>

NextHost ==
    \/ \E o \in DOMAIN heap : Open(o)
    \/ \E g \in 1..Len(stack) : ResumeAt(g)

SpecHost == InitWalk /\ [][NextHost]_vars

----------------------------------------------------------------------------
(* Claims about the field walk, checked under SpecWalk *)

\* C1: once a top-level render has ended (no generator is live any more),
\* the visited set is empty again, however the render ended.
C1_VisitedEmptyAfterRender ==
    (render.root # 0 /\ stack = <<>>) => visited = {}

\* The live generators walk pairwise distinct objects, so there are never
\* more of them than objects; and a pointer yielded as a gdb.Value for the
\* host to recurse into never points into the visited set.
DepthBounded ==
    /\ Len(stack) <= Cardinality(DOMAIN heap)
    /\ \A i, j \in 1..Len(stack) : stack[i].ptr = stack[j].ptr => i = j
    /\ (emitted.kind = "ptr" /\ emitted.token = "val") => emitted.pointee \notin visited

\* One more than the most fields a generator can still have to yield, plus
\* one: the base of the measure below.
Base == 2 + Len(Fields(CHOOSE c \in Layouts :
                         \A d \in Layouts : Len(Fields(d)) <= Len(Fields(c))))

RECURSIVE Power(_, _)
Power(b, n) == IF n = 0 THEN 1 ELSE b * Power(b, n - 1)

RECURSIVE Work(_)
\* A natural number that orders the stacks of live generators: the fields
\* each generator has left (plus one), outermost generator most significant.
Work(i) ==
    IF i > Len(stack) THEN 0
    ELSE (Len(Fields(stack[i].cast)) - stack[i].pc + 1) * Power(Base, MaxDepth - i)
         + Work(i + 1)

\* C2: rendering any heap terminates, cycles or not: every step the host
\* takes inside a render lowers a natural number (the work left), and the
\* recursion is never deeper than the number of objects, because a pointer
\* into the visited set is never yielded as a pointer to recurse into.
C2_RenderTerminates ==
    [][/\ DepthBounded'
       /\ stack # <<>> => Work(1)' < Work(1)]_vars

\* A render of a cycle through every object of the heap has gone all the way
\* round: one generator per object is live and the innermost has just yielded
\* the elided token for the edge that closes the cycle.
C2_Witness ==
    /\ Cardinality(DOMAIN heap) >= 2
    /\ Len(stack) = Cardinality(DOMAIN heap)
    /\ emitted.token = "<...>"
    /\ emitted.pointee = render.root

\* The heap A->B->C->A plus A->A, all three registered (A at address 1).
ScenarioHeap ==
    [o \in 1..3 |-> [tag |-> SymAddr("jl_expr_type"), a |-> (o % 3) + 1,
                     b |-> IF o = 1 THEN 1 ELSE 0, len |-> 3]]

\* C3: in a render that started from an empty visited set, a non-null
\* pointer field is yielded as "<self>" exactly when it points to the object
\* being walked, as "<...>" exactly when it points to another object whose
\* walk is in progress, and as the pointer itself otherwise; and rendering A
\* in the scenario heap to the end yields one "<self>" and one "<...>".
C3_TokenMatchesAncestry ==
    /\ (render.cleanStart /\ emitted.kind = "ptr" /\ emitted.pointee # 0) =>
         /\ emitted.token = "<self>" <=> emitted.pointee = emitted.owner
         /\ emitted.token = "<...>" <=>
              (emitted.pointee # emitted.owner /\ emitted.pointee \in InProgress)
         /\ emitted.token = "val" <=> emitted.pointee \notin InProgress
    /\ (/\ heap = ScenarioHeap
        /\ render.root = 1
        /\ render.cleanStart
        /\ render.clean
        /\ stack = <<>>)
       => (render.nself = 1 /\ render.nelided = 1)

\* C4: over any sequence of renders, a pointer field is yielded as "<...>"
\* or "<self>" only when it points to an object whose walk is in progress in
\* the current render; a pointer to any other object is yielded as the
\* pointer itself.
C4_OnlyAncestorsElided ==
    /\ emitted.token \in {"<self>", "<...>"} => emitted.pointee \in InProgress
    /\ (emitted.kind = "ptr" /\ emitted.pointee # 0 /\ emitted.pointee \notin InProgress)
       => emitted.token = "val"

\* The names the blacklist suppresses for a printer of the given display
\* name: the global list and the list keyed by that display name, if any.
Suppressed(print_type_name) ==
    blacklist["*"] \cup (IF print_type_name \in DOMAIN blacklist
                          THEN blacklist[print_type_name] ELSE {})

\* C11: whenever a generator yields (whatever the visited set holds), the
\* field it yields is neither in the global blacklist nor in the blacklist
\* keyed by its display name, and every field it passed over on the way from
\* its previous yield is in one of the two: the blacklist check suppresses
\* the blacklisted fields and no other.
C11_BlacklistedNeverEmitted ==
    [][(stack # <<>> /\ Len(stack') >= Len(stack)) =>
          LET fs == Fields(Top.cast)
              i == stack'[Len(stack)].pc
          IN  /\ i \in (Top.pc + 1)..Len(fs)
              /\ emitted'.owner = Top.ptr
              /\ emitted'.name = fs[i].name
              /\ fs[i].name \notin Suppressed(Top.print)
              /\ \A j \in (Top.pc + 1)..(i - 1) : fs[j].name \in Suppressed(Top.print)]_vars

\* A generator of display name jl_datatype_t has passed over "super" (on the
\* type-specific list) and yielded "size", and later passed over "env" (on
\* the global list) and yielded "fptr", while the visited set was not empty
\* before its walk began.
C11_Witness ==
    /\ emitted.name = "fptr"
    /\ Top.ptr = emitted.owner
    /\ Top.print = "jl_datatype_t"
    /\ Top.pc = 6
    /\ visited \ {s.ptr : s \in {stack[k] : k \in 1..Len(stack)}} # {}

\* The innermost live generator is the one that made the last yield: the
\* host created no generator for what was yielded.
NotFollowed ==
    /\ stack # <<>>
    /\ Top.ptr = emitted.owner
    /\ Top.pc > 0
    /\ Fields(Top.cast)[Top.pc].name = emitted.name

\* C12 as claimed: a field of any pointer type (the opaque void pointer
\* included) that holds the null address is yielded as the token "0x0",
\* never as the pointer itself, and the host recurses into nothing for it,
\* whatever the visited set holds.
C12_NullAlwaysZeroToken ==
    (emitted.kind \in {"ptr", "void"} /\ emitted.pointee = 0)
    => (emitted.token = "0x0" /\ NotFollowed)

\* C12 as amended: a null field of a pointer type other than the opaque void
\* pointer is yielded as the token "0x0"; a null field of the opaque void
\* pointer type is yielded as the pointer itself; in both cases the host
\* recurses into nothing, whatever the visited set holds.
C12_NullZeroTokenUnlessOpaque ==
    (emitted.kind \in {"ptr", "void"} /\ emitted.pointee = 0)
    => /\ emitted.kind = "ptr" => emitted.token = "0x0"
       /\ emitted.kind = "void" => emitted.token = "val"
       /\ NotFollowed

\* A generator has yielded "0x0" for a null pointer field while the visited
\* set held the address of an object no live generator walks.
C12_Witness ==
    /\ emitted.kind = "ptr"
    /\ emitted.pointee = 0
    /\ emitted.token = "0x0"
    /\ NotFollowed
    /\ visited \ {stack[k].ptr : k \in 1..Len(stack)} # {}

\* The names of the fields of a layout that the blacklist does not suppress
\* for a printer of the given display name, in declaration order.
Unsuppressed(cast_type_name, print_type_name) ==
    LET kept == SelectSeq(Fields(cast_type_name),
                          LAMBDA f : f.name \notin Suppressed(print_type_name))
    IN  [k \in 1..Len(kept) |-> kept[k].name]

\* C15: when a generator runs off the end of its loop, the names it has
\* yielded are the names of the fields of its cast layout that are not
\* blacklisted, each once and in declaration order, whether or not some of
\* them point into the visited set; and a field that is no pointer, or a
\* void pointer, is always yielded as the value itself.
C15_WalkEmitsEveryField ==
    [][/\ (stack # <<>> /\ Len(stack') < Len(stack) /\ emitted'.kind = "end")
          => Top.out = Unsuppressed(Top.cast, Top.print)
       /\ (stack # <<>> /\ Len(stack') >= Len(stack)
                        /\ emitted'.kind \in {"plain", "void"})
          => emitted'.token = "val"]_vars

\* In a render no walk of which failed or was abandoned, the generator of an
\* object of layout jl_datatype_t has run off the end of its loop, after a
\* pointer field of the render was yielded as a token.
C15_Witness ==
    /\ emitted.kind = "end"
    /\ heap[emitted.owner].tag = SymAddr("jl_datatype_type")
    /\ render.clean
    /\ render.nself + render.nelided > 0

----------------------------------------------------------------------------
(* Claims about the registry and the dispatch, checked under Spec *)

\* The value's static type matches the naming convention of runtime objects,
\* directly or through one pointer.
Shaped(val) ==
    is_julia_type((IF is_julia_pointer(val) THEN dereference(val) ELSE val).type)

\* The addresses of the registered type variables.
RegisteredAddrs == {SymAddr(s) : s \in DOMAIN typevars}

\* A value no registration is about: wrong shape, no type-tag field, or a tag
\* that is no registered type's address.
Unrecognized(val) ==
    \/ ~Shaped(val)
    \/ ~val.hasType
    \/ val.hasType /\ val.typeIsPtr /\ val.tag \notin RegisteredAddrs

\* C5: with the anchor type jl_value_t absent, every Printer.__call__ (the
\* first one included) returns None without raising, and the anchor lookup
\* is made once only and no type variable is ever looked up.
C5_DisabledAlwaysNotHandled ==
    ~anchor =>
        /\ calls > 0 => last.outcome.kind = "none"
        /\ anchorLookups <= 1
        /\ populations = 0

\* C6: a value of the wrong shape, or without a type-tag field, or whose tag
\* is not in the registry, makes Printer.__call__ return None and never
\* raise, whatever state the registry is in.
C6_UnrecognizedNotHandled ==
    (calls > 0 /\ Unrecognized(last.val)) => last.outcome.kind = "none"

\* C7: once the registry is initialized, Printer.__call__ returns None or a
\* printer object for every value and never raises (an unknown cast layout
\* included).
C7_NoErrorAfterInit ==
    (calls > 0 /\ last.pre.initialized) => last.outcome.kind \in {"none", "printer"}

\* The registrations of symbol s made before the registry was initialized.
EarlyRegs(s) == SelectSeq(regLog, LAMBDA r : r.typevar = s /\ r.early)

\* s was registered at least twice before the first resolution, the last two
\* times with different layout names.
OverriddenEarly(s) ==
    LET e == EarlyRegs(s)
    IN  Len(e) >= 2 /\ e[Len(e) - 1].cast # e[Len(e)].cast

\* C8: when a symbol is registered twice with different layouts before the
\* first resolution, every resolution of a value tagged with that symbol's
\* address yields the second registration's display name and cast layout.
C8_SecondRegistrationWins ==
    \A s \in Symbols :
        (/\ OverriddenEarly(s)
         /\ calls > 0
         /\ last.outcome.kind = "printer"
         /\ last.val.tag = SymAddr(s))
        => LET e == EarlyRegs(s)
           IN  /\ last.outcome.print = e[Len(e)].print
               /\ last.outcome.cast = e[Len(e)].cast

\* C9 as claimed: no lookup before the first render call, the population
\* step runs at most once over any sequence of render calls, and a call on
\* an initialized registry looks nothing up and leaves the address map alone.
C9_PopulatedAtMostOnce ==
    [][/\ calls' = 0 => (anchorLookups' = 0 /\ populations' = 0)
       /\ populations' <= 1
       /\ initialized => (/\ types' = types
                          /\ anchorLookups' = anchorLookups
                          /\ populations' = populations)]_vars

\* C9 as amended: no lookup before the first render call; the population
\* step runs more than once only while a registered symbol cannot be resolved
\* (it then fails and every later call runs it again); once the registry is
\* initialized it stays so, and a call looks nothing up and leaves the
\* address map alone.
C9_PopulatedOnceUnlessSymbolMissing ==
    [][/\ calls' = 0 => (anchorLookups' = 0 /\ populations' = 0)
       /\ populations' > 1 => (\E s \in DOMAIN typevars' : s \notin symbols)
       /\ initialized => (/\ initialized'
                          /\ types' = types
                          /\ anchorLookups' = anchorLookups
                          /\ populations' = populations)]_vars

\* A second render call was made on an already initialized registry.
C9_Witness ==
    /\ initialized
    /\ calls >= 2
    /\ last.pre.initialized
    /\ populations = 1
    /\ DOMAIN types # {}

\* C10: a tag address that has resolved to a registration resolves to the
\* same display name and the same cast layout in every later render.
C10_ResolutionStable ==
    (calls > 0 /\ last.outcome.kind = "printer")
    => /\ last.val.tag \in DOMAIN firstRes
       /\ last.outcome.print = firstRes[last.val.tag].print
       /\ last.outcome.cast = firstRes[last.val.tag].cast

\* C13: a render call made while the anchor type is there, the registry is
\* not yet initialized and some registered type variable cannot be resolved
\* raises "Could not find type variable!" (it does not return None), leaves
\* the printer enabled and leaves the registry not initialized.
C13_MissingSymbolSurfaces ==
    [][(/\ calls' = calls + 1
        /\ anchor
        /\ enabled
        /\ ~initialized
        /\ \E s \in DOMAIN typevars : s \notin symbols)
       => /\ last'.outcome.kind = "error"
          /\ last'.outcome.err = "Could not find type variable!"
          /\ enabled'
          /\ ~initialized']_vars

\* A render call has raised for a type variable that cannot be resolved, on
\* an image that has the anchor type.
C13_Witness ==
    /\ anchor
    /\ calls > 0
    /\ \E s \in DOMAIN typevars : s \notin symbols
    /\ last.anchorLookup
    /\ last.outcome.kind = "error"
    /\ last.outcome.err = "Could not find type variable!"
    /\ enabled
    /\ ~initialized

\* C17: whatever Printer.add calls and render calls have been made, every
\* display name in the address map types (and every one in typevars, from
\* which types is filled) is a key of printers, and no render call has
\* failed in the lookup self.printers[jl_type_name].
C17_ResolvedNameHasPrinter ==
    /\ \A a \in DOMAIN types : types[a] \in DOMAIN printers
    /\ \A s \in DOMAIN typevars : typevars[s] \in DOMAIN printers
    /\ calls > 0 => last.outcome.err # "KeyError"

\* A type variable was registered again under another display name after
\* the address map was filled, and a later render call of a value with that
\* tag was given a printer.
C17_Witness ==
    /\ \E s \in DOMAIN typevars :
         /\ SymAddr(s) \in DOMAIN types
         /\ types[SymAddr(s)] # typevars[s]
         /\ last.val.tag = SymAddr(s)
    /\ last.pre.initialized
    /\ last.outcome.kind = "printer"

----------------------------------------------------------------------------
(* Claims about the order of the registrations, checked under SpecOrder *)

\* C14: with every type variable registered once, in whatever order the
\* registrations were made, a value that resolves is given the display name
\* and the cast layout of the registration of the type variable whose
\* address is the value's tag.
C14_LookupByTagAddress ==
    \A i \in 1..Len(regLog) :
        (/\ calls > 0
         /\ last.outcome.kind = "printer"
         /\ last.val.tag = SymAddr(regLog[i].typevar))
        => /\ last.outcome.print = regLog[i].print
           /\ last.outcome.cast = regLog[i].cast

----------------------------------------------------------------------------
(* Claims about interleaved generators, checked under SpecHost *)

\* C16: however the host interleaves the generators it holds, the
\* visited.remove of line 107 never raises, and the address of an object
\* stays in the visited set as long as a generator that has added it has not
\* reached its end.
C16_RemovalNeverFails ==
    /\ emitted.kind # "KeyError"
    /\ \A g \in 1..Len(stack) : stack[g].pc > 0 => stack[g].ptr \in visited

====
